---- MODULE Spec2Model ----
(***************************************************************************)
(* The C facade of faiss-go (src/faiss_c_impl.cpp) over the search engine, *)
(* and the placeholder build of the same entry points                      *)
(* (src/faiss/faiss.cpp).                                                  *)
(*                                                                         *)
(* The engine (namespace faiss) is not part of the sources: what an engine *)
(* call does to an index is written down once, in the Engine... operators, *)
(* from sections 3 and 4 of the specification.  Every facade entry point   *)
(* is one action, translated from its body: the dynamic_cast guard, the    *)
(* engine call inside try, the assignments to the caller's output          *)
(* parameters that follow it, and the status CATCH_AND_HANDLE produces.    *)
(*                                                                         *)
(* Any engine call may raise a fault (section 4.2: bad argument, exhausted *)
(* resource, internal invariant violation); the actions take the fault as  *)
(* an input.                                                               *)
(***************************************************************************)
EXTENDS Integers, Sequences, FiniteSets, TLC

\* ---------------------------------------------------------------- bounds
MaxHandles == 2      \* engine objects alive at once (operator new fails beyond)
MaxTotal == 2        \* vectors an index holds (add is not issued beyond)
MaxParam == 2        \* values 1..MaxParam of nprobe, ef, k_factor, d
MaxId == 2           \* external ids 1..MaxId

\* ------------------------------------------------------- status codes
STATUS_OK == 0
STATUS_FAIL == -1

VARIABLES
    build,      \* "impl": faiss_c_impl.cpp is linked; "stub": faiss/faiss.cpp is
    heap,       \* handle -> engine object, or NoObj
    op,         \* the entry point called last
    arg,        \* its handle argument (0: none)
    narg,       \* its scalar argument: n of add, ef of a setter, metric_type of
                \* a constructor (0: none)
    ret,        \* <<v>>: its return value; << >>: none (void, or no call yet)
    out,        \* the caller's output parameters of that call
    escaped,    \* a fault left an entry point without becoming a status
    aborted,    \* the process died inside an entry point (invalid memory access)
    membuf,     \* the buffer the caller holds from faiss_serialize_index
    file,       \* the file faiss_write_index writes and faiss_read_index reads
    aux         \* handle -> object of another handle type (a vector transform,
                \* a clustering, a range search result), or NoObj

vars ==
    <<build, heap, op, arg, narg, ret, out, escaped, aborted, membuf, file,
      aux>>

Handles == 1..MaxHandles
Params == 1..MaxParam
Ids == 1..MaxId

NoObj == [cls |-> "none"]

\* ------------------------------------------------------------ engine
\* The classes the facade instantiates, by constructor.
FloatClasses ==
    {"IndexFlatL2", "IndexFlatIP", "IndexIVFFlat", "IndexIVFPQ", "IndexHNSWFlat",
     "IndexPQ", "IndexIDMap", "IndexScalarQuantizer", "IndexIVFScalarQuantizer",
     "IndexLSH", "IndexRefine", "IndexShards", "IndexPreTransform"}

BinaryClasses == {"IndexBinaryFlat", "IndexBinaryIVF", "IndexBinaryHash"}

\* faiss::IndexIVF and its subclasses: the target of dynamic_cast<IndexIVF*>.
IVFFamily == {"IndexIVFFlat", "IndexIVFPQ", "IndexIVFScalarQuantizer"}
HNSWFamily == {"IndexHNSWFlat"}
IDMapFamily == {"IndexIDMap"}
RefineFamily == {"IndexRefine"}
ShardsFamily == {"IndexShards"}
BinaryIVFFamily == {"IndexBinaryIVF"}

\* is_trained right after construction (specification, sections 4.3 and 8).
\* thresholds: the train_thresholds flag of LSH; kids: the children's flags.
TrainedAtConstruction(cls, thresholds, kidsTrained) ==
    CASE cls \in {"IndexFlatL2", "IndexFlatIP", "IndexBinaryFlat"} -> TRUE
      [] cls \in IVFFamily \cup {"IndexBinaryIVF"} -> FALSE
      [] cls \in {"IndexPQ", "IndexScalarQuantizer"} -> FALSE
      [] cls = "IndexLSH" -> ~thresholds
      [] cls \in {"IndexIDMap", "IndexRefine", "IndexPreTransform"} -> kidsTrained
      [] OTHER -> TRUE

\* A fresh engine object.  Parameters the constructor does not take hold the
\* engine's default, written 0.  ctor records the entry point that built it.
NewObj(ctor, cls, d, metric, thresholds, kidsTrained, kids) ==
    [ctor |-> ctor, cls |-> cls, d |-> d, metric |-> metric, ntotal |-> 0,
     trained |-> TrainedAtConstruction(cls, thresholds, kidsTrained),
     nprobe |-> 0, efConstruction |-> 0, efSearch |-> 0, k_factor |-> 0,
     ids |-> << >>, kids |-> kids]

\* add(n): fails on an untrained index before anything is stored; a fault in
\* the middle leaves the m <= n vectors already appended (section 4.2: no
\* rollback); otherwise appends n.  IDMap has no ids to give them.
EngineAddThrows(o, fault) == ~o.trained \/ o.cls = "IndexIDMap" \/ fault

EngineAdd(o, n, m, fault) ==
    IF ~o.trained \/ o.cls = "IndexIDMap" THEN o
    ELSE IF fault THEN [o EXCEPT !.ntotal = o.ntotal + m]
    ELSE [o EXCEPT !.ntotal = o.ntotal + n]

\* search: fails on an untrained index; reads the index only.
EngineSearchThrows(o, fault) == ~o.trained \/ fault

\* What a search leaves in the caller's result buffers: all k results per
\* query; nothing when the index is refused at entry; and after a fault in
\* the middle either nothing or the rows finished so far.
EngineSearchWrites(o, fault, partial) ==
    IF ~o.trained THEN << >>
    ELSE IF ~fault THEN <<"results">>
    ELSE IF partial THEN <<"partial">>
    ELSE << >>

\* train: a no-op on a trained index, sets the flag otherwise.
EngineTrain(o, fault) == IF fault THEN o ELSE [o EXCEPT !.trained = TRUE]

\* reset: ntotal -> 0, trained unaffected.
EngineReset(o, fault) ==
    IF fault THEN o ELSE [o EXCEPT !.ntotal = 0, !.ids = << >>]

\* IDMap add_with_ids: as add, with the caller's ids recorded in dense order.
EngineAddWithIds(o, ids, m, fault) ==
    IF ~o.trained THEN o
    ELSE LET kept == IF fault THEN SubSeq(ids, 1, m) ELSE ids
         IN  [o EXCEPT !.ids = o.ids \o kept, !.ntotal = o.ntotal + Len(kept)]

\* IDSelectorBatch(n_ids, ids): membership in the first n_ids entries.
IDSelectorBatch(n_ids, ids) == {ids[i] : i \in 1..n_ids}

\* remove_ids(sel): drops every stored entry whose id the selector accepts
\* and returns how many were dropped.
EngineRemoveIds(o, sel) ==
    LET keep(i) == i \notin sel
        left == SelectSeq(o.ids, keep)
    IN  [obj |-> [o EXCEPT !.ids = left, !.ntotal = Len(left)],
         n_removed |-> Len(o.ids) - Len(left)]

\* add_shard: the set's ntotal is the sum of its shards' (scenario 5).
EngineAddShard(o, shard, shardTotal) ==
    [o EXCEPT !.kids = Append(o.kids, shard), !.ntotal = o.ntotal + shardTotal]

\* What the destructor of an index destroys besides the index itself
\* (specification, sections 3 and 4.5): a shard set owns the shards added to
\* it, a pre-transform wrapper owns its transform and not its base, and the
\* id map and the refine wrapper own nothing.
OwnedIndexes(o) ==
    IF o.cls \in ShardsFamily THEN {o.kids[i] : i \in DOMAIN o.kids} ELSE {}

OwnedTransforms(o) ==
    IF o.cls = "IndexPreTransform" THEN {o.chain[i] : i \in DOMAIN o.chain} ELSE {}

\* The indexes destroyed with the indexes of S, owners of owners included.
RECURSIVE Doomed(_, _)
Doomed(S, fuel) ==
    IF fuel = 0 THEN S
    ELSE Doomed(S \cup UNION {OwnedIndexes(heap[g]) : g \in S}, fuel - 1)

\* delete index: the heaps after the destructor of heap[h] has run.
EngineDelete(h) ==
    LET gone == Doomed({h}, MaxHandles)
    IN  [heap |-> [g \in Handles |-> IF g \in gone THEN NoObj ELSE heap[g]],
         aux |-> [a \in Handles |->
                    IF \E g \in gone : a \in OwnedTransforms(heap[g])
                    THEN NoObj ELSE aux[a]]]


\* write_index: the engine's serialized form, one word per header field and
\* per variant-specific field; the children are written inline.
SerialWords == 11

EngineWrite(o) ==
    <<o.cls, o.d, o.ntotal, o.trained, o.metric, o.nprobe, o.efConstruction,
      o.efSearch, o.k_factor, o.ids, Len(o.kids)>>

\* read_index: fails on a truncated stream; otherwise an object of the class
\* the stream names, owning private copies of its children.
EngineReadThrows(bytes) == Len(bytes) < SerialWords

EngineRead(bytes) ==
    [ctor |-> "read_index", cls |-> bytes[1], d |-> bytes[2], metric |-> bytes[5],
     ntotal |-> bytes[3], trained |-> bytes[4], nprobe |-> bytes[6],
     efConstruction |-> bytes[7], efSearch |-> bytes[8], k_factor |-> bytes[9],
     ids |-> bytes[10], kids |-> << >>]

\* faiss::MetricType as the int the facade reports.
MetricCode(metric) == IF metric = "IP" THEN 0 ELSE 1

\* ------------------------------------------------------------ facade
Live(h) == h \in Handles /\ heap[h] # NoObj
IsFloat(h) == Live(h) /\ heap[h].cls \in FloatClasses
IsBinary(h) == Live(h) /\ heap[h].cls \in BinaryClasses

FreeSlots == {h \in Handles : heap[h] = NoObj}
\* operator new: the lowest free address.
NewSlot == CHOOSE h \in FreeSlots : \A g \in FreeSlots : h <= g

\* A handler that reports success whatever happened in the try block.
CatchAndHandle_ok(threw) == STATUS_OK

\* CATCH_AND_HANDLE: the status of a try block that threw, or that did not.
CatchAndHandle(threw) == IF threw THEN STATUS_FAIL ELSE STATUS_OK

\* dynamic_cast<Family*>(index): the handle when its class is in the family.
DynamicCast(h, family) == Live(h) /\ heap[h].cls \in family

\* The output parameters of a call before the callee has written any of them.
Unset ==
    [p_index |-> << >>, val |-> << >>, buf |-> << >>, index_type |-> << >>,
     d |-> << >>, metric |-> << >>, ntotal |-> << >>, data |-> << >>,
     size |-> << >>, p_transform |-> << >>, p_result |-> << >>,
     p_kmeans |-> << >>]

Running == ~escaped /\ ~aborted

\* The frame of a call on handle h that returned status s.
Frame(name, h, n, s) ==
    /\ op' = name
    /\ arg' = h
    /\ narg' = n
    /\ ret' = <<s>>
    /\ UNCHANGED <<build, escaped, aborted>>

\* The same, of an entry point of the index facade, which has no access to
\* the objects of the other handle types.
ReturnedN(name, h, n, s) == Frame(name, h, n, s) /\ UNCHANGED aux

Returned(name, h, s) == ReturnedN(name, h, 0, s)

\* Entry points that do not touch the serialized artifacts.
NoIO == UNCHANGED <<membuf, file>>

\* The frame of a call to a void entry point.
ReturnedVoid(name, h) ==
    /\ op' = name
    /\ arg' = h
    /\ narg' = 0
    /\ ret' = << >>
    /\ UNCHANGED <<build, aborted>>

\* A constructor that builds an L2 index whatever it is asked for.
MetricOf_l2(metric_type) == "L2"

\* metric_type == 0 ? METRIC_INNER_PRODUCT : METRIC_L2
MetricOf(metric_type) == IF metric_type = 0 THEN "IP" ELSE "L2"

\* ---- the objects the constructors allocate: new faiss::Class(...)
New_IndexFlatL2(d) ==
    NewObj("faiss_IndexFlatL2_new", "IndexFlatL2", d, "L2", FALSE, TRUE, << >>)

New_IndexFlatIP(d) ==
    NewObj("faiss_IndexFlatIP_new", "IndexFlatIP", d, "IP", FALSE, TRUE, << >>)

New_IndexIVFFlat(quantizer, d, metric_type) ==
    NewObj("faiss_IndexIVFFlat_new", "IndexIVFFlat", d, MetricOf(metric_type),
           FALSE, TRUE, <<quantizer>>)

New_IndexHNSWFlat(d, metric_type) ==
    NewObj("faiss_IndexHNSWFlat_new", "IndexHNSWFlat", d, MetricOf(metric_type),
           FALSE, TRUE, << >>)

New_IndexPQ(d, metric_type) ==
    NewObj("faiss_IndexPQ_new", "IndexPQ", d, MetricOf(metric_type), FALSE, TRUE,
           << >>)

\* IndexIVFPQ(quantizer, d, nlist, M, nbits): no metric argument, the engine's
\* default metric.
New_IndexIVFPQ(quantizer, d) ==
    NewObj("faiss_IndexIVFPQ_new", "IndexIVFPQ", d, "L2", FALSE, TRUE,
           <<quantizer>>)

\* IndexIDMap(base_index): d, metric and is_trained are the base's.
New_IndexIDMap(base_index, base) ==
    NewObj("faiss_IndexIDMap_new", "IndexIDMap", base.d, base.metric, FALSE,
           base.trained, <<base_index>>)

New_IndexScalarQuantizer(d, metric_type) ==
    NewObj("faiss_IndexScalarQuantizer_new", "IndexScalarQuantizer", d,
           MetricOf(metric_type), FALSE, TRUE, << >>)

New_IndexIVFScalarQuantizer(quantizer, d, metric_type) ==
    NewObj("faiss_IndexIVFScalarQuantizer_new", "IndexIVFScalarQuantizer", d,
           MetricOf(metric_type), FALSE, TRUE, <<quantizer>>)

New_IndexLSH(d, train_thresholds) ==
    NewObj("faiss_IndexLSH_new", "IndexLSH", d, "L2", train_thresholds, TRUE,
           << >>)

New_IndexRefine(base_index, refine_index, base, refine) ==
    NewObj("faiss_IndexRefine_new", "IndexRefine", base.d, base.metric, FALSE,
           base.trained /\ refine.trained, <<base_index, refine_index>>)

\* (void)metric_type: IndexShards(d, false, false), the engine's default metric.
New_IndexShards(d, metric_type) ==
    NewObj("faiss_IndexShards_new", "IndexShards", d, "L2", FALSE, TRUE, << >>)

\* "Using regular IndexPQ as fallback"
New_IndexPQFastScan(d, metric_type) ==
    NewObj("faiss_IndexPQFastScan_new", "IndexPQ", d, MetricOf(metric_type),
           FALSE, TRUE, << >>)

New_IndexIVFPQFastScan(quantizer, d, metric_type) ==
    NewObj("faiss_IndexIVFPQFastScan_new", "IndexIVFPQ", d,
           MetricOf(metric_type), FALSE, TRUE, <<quantizer>>)

\* "OnDisk support not fully implemented - using in-memory fallback"
New_IndexIVFFlatOnDisk(quantizer, d, metric_type) ==
    NewObj("faiss_IndexIVFFlatOnDisk_new", "IndexIVFFlat", d,
           MetricOf(metric_type), FALSE, TRUE, <<quantizer>>)

New_IndexIVFPQOnDisk(quantizer, d, metric_type) ==
    NewObj("faiss_IndexIVFPQOnDisk_new", "IndexIVFPQ", d, MetricOf(metric_type),
           FALSE, TRUE, <<quantizer>>)

New_IndexBinaryFlat(d) ==
    NewObj("faiss_IndexBinaryFlat_new", "IndexBinaryFlat", d, "L2", FALSE, TRUE,
           << >>)

New_IndexBinaryIVF(quantizer, d) ==
    NewObj("faiss_IndexBinaryIVF_new", "IndexBinaryIVF", d, "L2", FALSE, TRUE,
           <<quantizer>>)

New_IndexBinaryHash(d) ==
    NewObj("faiss_IndexBinaryHash_new", "IndexBinaryHash", d, "L2", FALSE, TRUE,
           << >>)

\* The output handle of a constructor: stored only when new did not throw.
ConstructOut(threw, slot) ==
    IF threw THEN Unset ELSE [Unset EXCEPT !.p_index = <<slot>>]

\* try { *p_index = new Class(...); return 0; } CATCH_AND_HANDLE(): new throws
\* when the engine rejects the arguments or memory is exhausted.
\* n: the metric_type argument of the call (0 when it has none).
ConstructN(obj, n, fault) ==
    /\ Running /\ build = "impl" /\ NoIO
    /\ LET threw == fault \/ FreeSlots = {}
       IN  /\ heap' = IF threw THEN heap ELSE [heap EXCEPT ![NewSlot] = obj]
           /\ out' = ConstructOut(threw, NewSlot)
           /\ ReturnedN(obj.ctor, 0, n, CatchAndHandle(threw))

Construct(obj, fault) == ConstructN(obj, 0, fault)

faiss_IndexFlatL2_new(d, fault) == Construct(New_IndexFlatL2(d), fault)

faiss_IndexFlatIP_new(d, fault) == Construct(New_IndexFlatIP(d), fault)

faiss_IndexIVFFlat_new(quantizer, d, metric_type, fault) ==
    /\ IsFloat(quantizer)
    /\ ConstructN(New_IndexIVFFlat(quantizer, d, metric_type), metric_type, fault)

faiss_IndexHNSWFlat_new(d, metric_type, fault) ==
    ConstructN(New_IndexHNSWFlat(d, metric_type), metric_type, fault)

faiss_IndexPQ_new(d, metric_type, fault) ==
    ConstructN(New_IndexPQ(d, metric_type), metric_type, fault)

faiss_IndexIVFPQ_new(quantizer, d, fault) ==
    /\ IsFloat(quantizer)
    /\ Construct(New_IndexIVFPQ(quantizer, d), fault)

faiss_IndexIDMap_new(base_index, fault) ==
    /\ IsFloat(base_index)
    /\ Construct(New_IndexIDMap(base_index, heap[base_index]), fault)

faiss_IndexScalarQuantizer_new(d, metric_type, fault) ==
    ConstructN(New_IndexScalarQuantizer(d, metric_type), metric_type, fault)

faiss_IndexIVFScalarQuantizer_new(quantizer, d, metric_type, fault) ==
    /\ IsFloat(quantizer)
    /\ ConstructN(New_IndexIVFScalarQuantizer(quantizer, d, metric_type), metric_type, fault)

faiss_IndexLSH_new(d, train_thresholds, fault) ==
    Construct(New_IndexLSH(d, train_thresholds), fault)

faiss_IndexRefine_new(base_index, refine_index, fault) ==
    /\ IsFloat(base_index) /\ IsFloat(refine_index)
    /\ Construct(New_IndexRefine(base_index, refine_index, heap[base_index],
                                 heap[refine_index]), fault)

faiss_IndexShards_new(d, metric_type, fault) ==
    ConstructN(New_IndexShards(d, metric_type), metric_type, fault)

faiss_IndexPQFastScan_new(d, metric_type, fault) ==
    ConstructN(New_IndexPQFastScan(d, metric_type), metric_type, fault)

faiss_IndexIVFPQFastScan_new(quantizer, d, metric_type, fault) ==
    /\ IsFloat(quantizer)
    /\ ConstructN(New_IndexIVFPQFastScan(quantizer, d, metric_type), metric_type, fault)

faiss_IndexIVFFlatOnDisk_new(quantizer, d, metric_type, fault) ==
    /\ IsFloat(quantizer)
    /\ ConstructN(New_IndexIVFFlatOnDisk(quantizer, d, metric_type), metric_type, fault)

faiss_IndexIVFPQOnDisk_new(quantizer, d, metric_type, fault) ==
    /\ IsFloat(quantizer)
    /\ ConstructN(New_IndexIVFPQOnDisk(quantizer, d, metric_type), metric_type, fault)

faiss_IndexBinaryFlat_new(d, fault) == Construct(New_IndexBinaryFlat(d), fault)

faiss_IndexBinaryIVF_new(quantizer, d, fault) ==
    /\ IsBinary(quantizer)
    /\ Construct(New_IndexBinaryIVF(quantizer, d), fault)

faiss_IndexBinaryHash_new(d, fault) == Construct(New_IndexBinaryHash(d), fault)

\* ---- common operations
faiss_Index_add(h, n, m, fault) ==
    /\ Running /\ build = "impl" /\ NoIO /\ IsFloat(h)
    /\ heap[h].ntotal + n <= MaxTotal
    /\ LET threw == EngineAddThrows(heap[h], fault)
       IN  /\ heap' = [heap EXCEPT ![h] = EngineAdd(heap[h], n, m, fault)]
           /\ out' = Unset
           /\ ReturnedN("faiss_Index_add", h, n, CatchAndHandle(threw))

\* The engine fills the caller's distances and labels in place.
faiss_Index_search(h, fault, partial) ==
    /\ Running /\ build = "impl" /\ NoIO /\ IsFloat(h)
    /\ out' = [Unset EXCEPT !.buf = EngineSearchWrites(heap[h], fault, partial)]
    /\ UNCHANGED heap
    /\ Returned("faiss_Index_search", h,
                CatchAndHandle(EngineSearchThrows(heap[h], fault)))

faiss_Index_train(h, fault) ==
    /\ Running /\ build = "impl" /\ NoIO /\ IsFloat(h)
    /\ heap' = [heap EXCEPT ![h] = EngineTrain(heap[h], fault)]
    /\ out' = Unset
    /\ Returned("faiss_Index_train", h, CatchAndHandle(fault))

faiss_Index_reset(h, fault) ==
    /\ Running /\ build = "impl" /\ NoIO /\ IsFloat(h)
    /\ heap' = [heap EXCEPT ![h] = EngineReset(heap[h], fault)]
    /\ out' = Unset
    /\ Returned("faiss_Index_reset", h, CatchAndHandle(fault))

\* delete index: the engine's destructor runs outside any try block.
\* The same with a destructor that releases the object alone.
faiss_Index_free_shallow(h, fault) ==
    /\ Running /\ build = "impl" /\ NoIO /\ IsFloat(h)
    /\ heap' = IF fault THEN heap ELSE [heap EXCEPT ![h] = NoObj]
    /\ UNCHANGED aux
    /\ escaped' = fault
    /\ out' = Unset
    /\ ReturnedVoid("faiss_Index_free", h)

faiss_Index_free(h, fault) ==
    /\ Running /\ build = "impl" /\ NoIO /\ IsFloat(h)
    /\ heap' = IF fault THEN heap ELSE EngineDelete(h).heap
    /\ aux' = IF fault THEN aux ELSE EngineDelete(h).aux
    /\ escaped' = fault
    /\ out' = Unset
    /\ ReturnedVoid("faiss_Index_free", h)

\* An accessor that does not read the field.
Index_ntotal_zero(h) == 0

\* return index->ntotal: a field read, no engine call.
Index_ntotal_value(h) == heap[h].ntotal

faiss_Index_ntotal(h) ==
    /\ Running /\ build = "impl" /\ NoIO /\ IsFloat(h)
    /\ out' = Unset
    /\ UNCHANGED heap
    /\ Returned("faiss_Index_ntotal", h, Index_ntotal_value(h))

\* An accessor that reports every index as trained.
Index_is_trained_always(h) == 1

\* return index->is_trained ? 1 : 0
Index_is_trained_value(h) == IF heap[h].trained THEN 1 ELSE 0

faiss_Index_is_trained(h) ==
    /\ Running /\ build = "impl" /\ NoIO /\ IsFloat(h)
    /\ out' = Unset
    /\ UNCHANGED heap
    /\ Returned("faiss_Index_is_trained", h, Index_is_trained_value(h))

faiss_Index_d(h) ==
    /\ Running /\ build = "impl" /\ NoIO /\ IsFloat(h)
    /\ out' = Unset
    /\ UNCHANGED heap
    /\ Returned("faiss_Index_d", h, heap[h].d)

\* ---- capability dispatch
\* The family each gated entry point casts its handle to.
GatedOps ==
    {"faiss_IndexIVF_set_nprobe", "faiss_IndexIVF_get_nprobe",
     "faiss_IndexBinaryIVF_set_nprobe", "faiss_IndexHNSW_set_efConstruction",
     "faiss_IndexHNSW_set_efSearch", "faiss_IndexHNSW_get_efConstruction",
     "faiss_IndexHNSW_get_efSearch", "faiss_IndexRefine_set_k_factor",
     "faiss_Index_assign", "faiss_IndexIDMap_add_with_ids",
     "faiss_IndexIDMap_remove_ids", "faiss_IndexShards_add_shard"}

TargetFamily(name) ==
    CASE name \in {"faiss_IndexIVF_set_nprobe", "faiss_IndexIVF_get_nprobe",
                   "faiss_Index_assign"} -> IVFFamily
      [] name = "faiss_IndexBinaryIVF_set_nprobe" -> BinaryIVFFamily
      [] name \in {"faiss_IndexHNSW_set_efConstruction",
                   "faiss_IndexHNSW_set_efSearch",
                   "faiss_IndexHNSW_get_efConstruction",
                   "faiss_IndexHNSW_get_efSearch"} -> HNSWFamily
      [] name = "faiss_IndexRefine_set_k_factor" -> RefineFamily
      [] name \in {"faiss_IndexIDMap_add_with_ids",
                   "faiss_IndexIDMap_remove_ids"} -> IDMapFamily
      [] name = "faiss_IndexShards_add_shard" -> ShardsFamily

\* The setter without the guard on the cast.
IndexIVF_set_nprobe_unchecked(h, nprobe) == [heap EXCEPT ![h].nprobe = nprobe]

\* if (!ivf) return -1; ivf->nprobe = nprobe;
IndexIVF_set_nprobe_heap(h, nprobe) ==
    IF DynamicCast(h, IVFFamily) THEN [heap EXCEPT ![h].nprobe = nprobe] ELSE heap

faiss_IndexIVF_set_nprobe(h, nprobe) ==
    /\ Running /\ build = "impl" /\ NoIO /\ IsFloat(h)
    /\ heap' = IndexIVF_set_nprobe_heap(h, nprobe)
    /\ out' = Unset
    /\ Returned("faiss_IndexIVF_set_nprobe", h,
                IF DynamicCast(h, IVFFamily) THEN STATUS_OK ELSE STATUS_FAIL)

\* if (!ivf) return -1; *nprobe = ivf->nprobe;
faiss_IndexIVF_get_nprobe(h) ==
    /\ Running /\ build = "impl" /\ NoIO /\ IsFloat(h)
    /\ out' = IF DynamicCast(h, IVFFamily)
              THEN [Unset EXCEPT !.val = <<heap[h].nprobe>>] ELSE Unset
    /\ UNCHANGED heap
    /\ Returned("faiss_IndexIVF_get_nprobe", h,
                IF DynamicCast(h, IVFFamily) THEN STATUS_OK ELSE STATUS_FAIL)

\* hnsw->hnsw.efConstruction = ef
IndexHNSW_set_efConstruction_heap(h, ef) ==
    IF DynamicCast(h, HNSWFamily)
    THEN [heap EXCEPT ![h].efConstruction = ef] ELSE heap

faiss_IndexHNSW_set_efConstruction(h, ef) ==
    /\ Running /\ build = "impl" /\ NoIO /\ IsFloat(h)
    /\ heap' = IndexHNSW_set_efConstruction_heap(h, ef)
    /\ out' = Unset
    /\ ReturnedN("faiss_IndexHNSW_set_efConstruction", h, ef,
                IF DynamicCast(h, HNSWFamily) THEN STATUS_OK ELSE STATUS_FAIL)

\* A setter that stores into the other parameter.
IndexHNSW_set_efSearch_other(h, ef) ==
    IF DynamicCast(h, HNSWFamily)
    THEN [heap EXCEPT ![h].efConstruction = ef] ELSE heap

\* hnsw->hnsw.efSearch = ef
IndexHNSW_set_efSearch_heap(h, ef) ==
    IF DynamicCast(h, HNSWFamily) THEN [heap EXCEPT ![h].efSearch = ef] ELSE heap

faiss_IndexHNSW_set_efSearch(h, ef) ==
    /\ Running /\ build = "impl" /\ NoIO /\ IsFloat(h)
    /\ heap' = IndexHNSW_set_efSearch_heap(h, ef)
    /\ out' = Unset
    /\ ReturnedN("faiss_IndexHNSW_set_efSearch", h, ef,
                IF DynamicCast(h, HNSWFamily) THEN STATUS_OK ELSE STATUS_FAIL)

faiss_IndexHNSW_get_efConstruction(h) ==
    /\ Running /\ build = "impl" /\ NoIO /\ IsFloat(h)
    /\ out' = IF DynamicCast(h, HNSWFamily)
              THEN [Unset EXCEPT !.val = <<heap[h].efConstruction>>] ELSE Unset
    /\ UNCHANGED heap
    /\ Returned("faiss_IndexHNSW_get_efConstruction", h,
                IF DynamicCast(h, HNSWFamily) THEN STATUS_OK ELSE STATUS_FAIL)

\* *ef = hnsw->hnsw.efSearch
IndexHNSW_get_efSearch_value(h) == heap[h].efSearch

faiss_IndexHNSW_get_efSearch(h) ==
    /\ Running /\ build = "impl" /\ NoIO /\ IsFloat(h)
    /\ out' = IF DynamicCast(h, HNSWFamily)
              THEN [Unset EXCEPT !.val = <<IndexHNSW_get_efSearch_value(h)>>]
              ELSE Unset
    /\ UNCHANGED heap
    /\ Returned("faiss_IndexHNSW_get_efSearch", h,
                IF DynamicCast(h, HNSWFamily) THEN STATUS_OK ELSE STATUS_FAIL)

faiss_IndexRefine_set_k_factor(h, k_factor) ==
    /\ Running /\ build = "impl" /\ NoIO /\ IsFloat(h)
    /\ heap' = IF DynamicCast(h, RefineFamily)
               THEN [heap EXCEPT ![h].k_factor = k_factor] ELSE heap
    /\ out' = Unset
    /\ Returned("faiss_IndexRefine_set_k_factor", h,
                IF DynamicCast(h, RefineFamily) THEN STATUS_OK ELSE STATUS_FAIL)

\* if (!ivf) return -1; ivf->assign(n, x, labels): the engine fills labels.
faiss_Index_assign(h, fault, partial) ==
    /\ Running /\ build = "impl" /\ NoIO /\ IsFloat(h)
    /\ LET ok == DynamicCast(h, IVFFamily)
       IN  /\ out' = IF ok
                     THEN [Unset EXCEPT
                              !.buf = EngineSearchWrites(heap[h], fault, partial)]
                     ELSE Unset
           /\ Returned("faiss_Index_assign", h,
                       IF ok THEN CatchAndHandle(EngineSearchThrows(heap[h], fault))
                       ELSE STATUS_FAIL)
    /\ UNCHANGED heap

faiss_IndexIDMap_add_with_ids(h, ids, m, fault) ==
    /\ Running /\ build = "impl" /\ NoIO /\ IsFloat(h)
    /\ heap[h].ntotal + Len(ids) <= MaxTotal
    /\ LET ok == DynamicCast(h, IDMapFamily)
       IN  /\ heap' = IF ok
                      THEN [heap EXCEPT ![h] = EngineAddWithIds(heap[h], ids, m, fault)]
                      ELSE heap
           /\ Returned("faiss_IndexIDMap_add_with_ids", h,
                       IF ok THEN CatchAndHandle(~heap[h].trained \/ fault)
                       ELSE STATUS_FAIL)
    /\ out' = Unset

\* A count that reports the ids requested instead of the ids removed.
IndexIDMap_n_requested(h, n_ids, ids) == n_ids

\* The count the facade stores in *n_removed.
IndexIDMap_n_removed(h, n_ids, ids) ==
    EngineRemoveIds(heap[h], IDSelectorBatch(n_ids, ids)).n_removed

faiss_IndexIDMap_remove_ids(h, ids, fault) ==
    /\ Running /\ build = "impl" /\ NoIO /\ IsFloat(h)
    /\ LET ok == DynamicCast(h, IDMapFamily) /\ ~fault
           sel == IDSelectorBatch(Len(ids), ids)
       IN  /\ heap' = IF ok
                      THEN [heap EXCEPT ![h] = EngineRemoveIds(heap[h], sel).obj]
                      ELSE heap
           /\ out' = IF ok
                     THEN [Unset EXCEPT
                              !.val = <<IndexIDMap_n_removed(h, Len(ids), ids)>>]
                     ELSE Unset
           /\ Returned("faiss_IndexIDMap_remove_ids", h,
                       IF ok THEN STATUS_OK ELSE STATUS_FAIL)

faiss_IndexShards_add_shard(h, shard, fault) ==
    /\ Running /\ build = "impl" /\ NoIO /\ IsFloat(h) /\ IsFloat(shard) /\ shard # h
    /\ Len(heap[h].kids) < MaxHandles
    /\ heap[h].ntotal + heap[shard].ntotal <= MaxTotal
    /\ LET ok == DynamicCast(h, ShardsFamily) /\ ~fault
       IN  /\ heap' = IF ok
                      THEN [heap EXCEPT ![h] =
                               EngineAddShard(heap[h], shard, heap[shard].ntotal)]
                      ELSE heap
           /\ Returned("faiss_IndexShards_add_shard", h,
                       IF ok THEN STATUS_OK ELSE STATUS_FAIL)
    /\ out' = Unset

\* ---- binary indexes
faiss_IndexBinary_add(h, n, m, fault) ==
    /\ Running /\ build = "impl" /\ NoIO /\ IsBinary(h)
    /\ heap[h].ntotal + n <= MaxTotal
    /\ heap' = [heap EXCEPT ![h] = EngineAdd(heap[h], n, m, fault)]
    /\ out' = Unset
    /\ ReturnedN("faiss_IndexBinary_add", h, n,
                CatchAndHandle(EngineAddThrows(heap[h], fault)))

faiss_IndexBinary_search(h, fault, partial) ==
    /\ Running /\ build = "impl" /\ NoIO /\ IsBinary(h)
    /\ out' = [Unset EXCEPT !.buf = EngineSearchWrites(heap[h], fault, partial)]
    /\ UNCHANGED heap
    /\ Returned("faiss_IndexBinary_search", h,
                CatchAndHandle(EngineSearchThrows(heap[h], fault)))

faiss_IndexBinary_train(h, fault) ==
    /\ Running /\ build = "impl" /\ NoIO /\ IsBinary(h)
    /\ heap' = [heap EXCEPT ![h] = EngineTrain(heap[h], fault)]
    /\ out' = Unset
    /\ Returned("faiss_IndexBinary_train", h, CatchAndHandle(fault))

faiss_IndexBinary_reset(h, fault) ==
    /\ Running /\ build = "impl" /\ NoIO /\ IsBinary(h)
    /\ heap' = [heap EXCEPT ![h] = EngineReset(heap[h], fault)]
    /\ out' = Unset
    /\ Returned("faiss_IndexBinary_reset", h, CatchAndHandle(fault))

\* *ntotal = index->ntotal
faiss_IndexBinary_ntotal(h) ==
    /\ Running /\ build = "impl" /\ NoIO /\ IsBinary(h)
    /\ out' = [Unset EXCEPT !.val = <<heap[h].ntotal>>]
    /\ UNCHANGED heap
    /\ Returned("faiss_IndexBinary_ntotal", h, STATUS_OK)

\* *is_trained = index->is_trained ? 1 : 0
faiss_IndexBinary_is_trained(h) ==
    /\ Running /\ build = "impl" /\ NoIO /\ IsBinary(h)
    /\ out' = [Unset EXCEPT !.val = <<IF heap[h].trained THEN 1 ELSE 0>>]
    /\ UNCHANGED heap
    /\ Returned("faiss_IndexBinary_is_trained", h, STATUS_OK)

faiss_IndexBinaryIVF_set_nprobe(h, nprobe) ==
    /\ Running /\ build = "impl" /\ NoIO /\ IsBinary(h)
    /\ heap' = IF DynamicCast(h, BinaryIVFFamily)
               THEN [heap EXCEPT ![h].nprobe = nprobe] ELSE heap
    /\ out' = Unset
    /\ Returned("faiss_IndexBinaryIVF_set_nprobe", h,
                IF DynamicCast(h, BinaryIVFFamily) THEN STATUS_OK ELSE STATUS_FAIL)

faiss_IndexBinary_free(h, fault) ==
    /\ Running /\ build = "impl" /\ NoIO /\ IsBinary(h)
    /\ heap' = IF fault THEN heap ELSE [heap EXCEPT ![h] = NoObj]
    /\ escaped' = fault
    /\ out' = Unset
    /\ UNCHANGED aux
    /\ ReturnedVoid("faiss_IndexBinary_free", h)

\* ---- serialization
NoBuf == [data |-> << >>, size |-> 0, of |-> NoObj]
NoFile == [bytes |-> << >>, of |-> NoObj]

\* faiss::write_index(index, filename): a fault may leave a truncated file.
faiss_write_index(h, fault, partial) ==
    /\ Running /\ build = "impl" /\ IsFloat(h)
    /\ LET bytes == EngineWrite(heap[h])
       IN  file' = IF ~fault THEN [bytes |-> bytes, of |-> heap[h]]
                   ELSE IF partial
                        THEN [bytes |-> SubSeq(bytes, 1, Len(bytes) - 1), of |-> heap[h]]
                        ELSE file
    /\ out' = Unset
    /\ UNCHANGED <<heap, membuf>>
    /\ Returned("faiss_write_index", h, CatchAndHandle(fault))

\* *size = writer.data.size(); *data = malloc(*size); memcpy(*data, ..., *size)
SerializeCopy(written) == SubSeq(written, 1, Len(written))

faiss_serialize_index(h, fault) ==
    /\ Running /\ build = "impl" /\ IsFloat(h)
    /\ LET written == EngineWrite(heap[h])
           data == SerializeCopy(written)
       IN  /\ out' = IF fault THEN Unset
                     ELSE [Unset EXCEPT !.data = <<data>>, !.size = <<Len(written)>>]
           /\ membuf' = IF fault THEN membuf
                        ELSE [data |-> data, size |-> Len(written), of |-> heap[h]]
    /\ UNCHANGED <<heap, file>>
    /\ Returned("faiss_serialize_index", h, CatchAndHandle(fault))

\* IsA(cls, target): dynamic_cast<target*> of an object of class cls succeeds.
IsA(cls, target) == cls = target

\* A probe chain in which no cast succeeds.
IndexTypeOf_none(cls) == "Unknown"

\* A probe chain that reports the class whatever it is.
IndexTypeOf_class(cls) == cls

\* The probe chain of faiss_read_index and faiss_deserialize_index.
IndexTypeOf(cls) ==
    IF IsA(cls, "IndexFlatL2") THEN "IndexFlatL2"
    ELSE IF IsA(cls, "IndexFlatIP") THEN "IndexFlatIP"
    ELSE IF IsA(cls, "IndexIVFFlat") THEN "IndexIVFFlat"
    ELSE IF IsA(cls, "IndexIVFPQ") THEN "IndexIVFPQ"
    ELSE IF IsA(cls, "IndexHNSWFlat") THEN "IndexHNSWFlat"
    ELSE IF IsA(cls, "IndexPQ") THEN "IndexPQ"
    ELSE IF IsA(cls, "IndexIDMap") THEN "IndexIDMap"
    ELSE "Unknown"

\* A reader that stores *d before the engine has accepted the stream.
ReadOutputs_early(threw, slot, o) ==
    IF threw THEN [Unset EXCEPT !.d = <<0>>]
    ELSE [Unset EXCEPT !.p_index = <<slot>>,
                       !.index_type = <<IndexTypeOf(o.cls)>>,
                       !.d = <<o.d>>,
                       !.metric = <<MetricCode(o.metric)>>,
                       !.ntotal = <<o.ntotal>>]

\* The output parameters after *p_index = read_index(...): nothing when the
\* read threw, else the handle, the tag, d, metric_type and ntotal.
ReadOutputs(threw, slot, o) ==
    IF threw THEN Unset
    ELSE [Unset EXCEPT !.p_index = <<slot>>,
                       !.index_type = <<IndexTypeOf(o.cls)>>,
                       !.d = <<o.d>>,
                       !.metric = <<MetricCode(o.metric)>>,
                       !.ntotal = <<o.ntotal>>]

\* The bytes handed to the engine's reader: memcpy(reader.data, data, size).
DeserializeCopy(data, size) == SubSeq(data, 1, size)

ReadFrom(name, bytes, fault) ==
    LET threw == EngineReadThrows(bytes) \/ fault \/ FreeSlots = {}
        o == EngineRead(bytes)
    IN  /\ heap' = IF threw THEN heap ELSE [heap EXCEPT ![NewSlot] = o]
        /\ out' = ReadOutputs(threw, NewSlot, o)
        /\ Returned(name, 0, CatchAndHandle(threw))

faiss_read_index(fault) ==
    /\ Running /\ build = "impl"
    /\ ReadFrom("faiss_read_index", file.bytes, fault)
    /\ UNCHANGED <<membuf, file>>

faiss_deserialize_index(size, fault) ==
    /\ Running /\ build = "impl"
    /\ membuf # NoBuf /\ size <= Len(membuf.data)
    /\ ReadFrom("faiss_deserialize_index", DeserializeCopy(membuf.data, size), fault)
    /\ UNCHANGED <<membuf, file>>

\* ---- device transfer, built without FAISS_GPU
\* A stub that stores a null handle through its output pointer.
GpuStub_writes(name) ==
    /\ Running /\ build = "impl" /\ NoIO
    /\ out' = [Unset EXCEPT !.p_index = <<0>>]
    /\ UNCHANGED heap
    /\ Returned(name, 0, STATUS_FAIL)

\* (void)p_res; return -1;
GpuStub(name) ==
    /\ Running /\ build = "impl" /\ NoIO
    /\ out' = Unset
    /\ UNCHANGED heap
    /\ Returned(name, 0, STATUS_FAIL)

faiss_StandardGpuResources_new == GpuStub("faiss_StandardGpuResources_new")

faiss_StandardGpuResources_setTempMemory ==
    GpuStub("faiss_StandardGpuResources_setTempMemory")

faiss_StandardGpuResources_setDefaultNullStreamAllDevices ==
    GpuStub("faiss_StandardGpuResources_setDefaultNullStreamAllDevices")

faiss_StandardGpuResources_free ==
    /\ Running /\ build = "impl" /\ NoIO
    /\ out' = Unset
    /\ UNCHANGED <<heap, escaped, aux>>
    /\ ReturnedVoid("faiss_StandardGpuResources_free", 0)

faiss_GpuIndexFlat_new == GpuStub("faiss_GpuIndexFlat_new")

faiss_GpuIndexIVFFlat_new == GpuStub("faiss_GpuIndexIVFFlat_new")

faiss_index_cpu_to_gpu(h) ==
    /\ IsFloat(h)
    /\ GpuStub("faiss_index_cpu_to_gpu")

faiss_index_gpu_to_cpu(h) ==
    /\ IsFloat(h)
    /\ GpuStub("faiss_index_gpu_to_cpu")

faiss_index_cpu_to_all_gpus(h) ==
    /\ IsFloat(h)
    /\ GpuStub("faiss_index_cpu_to_all_gpus")

\* *ngpus = 0; return 0;
faiss_get_num_gpus ==
    /\ Running /\ build = "impl" /\ NoIO
    /\ out' = [Unset EXCEPT !.val = <<0>>]
    /\ UNCHANGED heap
    /\ Returned("faiss_get_num_gpus", 0, STATUS_OK)

\* ---- the placeholder build (faiss/faiss.cpp): no engine behind it
StubReturn(name, v) ==
    /\ Running /\ build = "stub" /\ NoIO
    /\ out' = Unset
    /\ UNCHANGED heap
    /\ Returned(name, 0, v)

faiss_IndexFlatL2_new_stub == StubReturn("faiss_IndexFlatL2_new", -1)
faiss_IndexFlatIP_new_stub == StubReturn("faiss_IndexFlatIP_new", -1)
faiss_Index_add_stub == StubReturn("faiss_Index_add", -1)
faiss_Index_search_stub == StubReturn("faiss_Index_search", -1)
faiss_Index_train_stub == StubReturn("faiss_Index_train", 0)
faiss_Index_reset_stub == StubReturn("faiss_Index_reset", -1)
faiss_Index_ntotal_stub == StubReturn("faiss_Index_ntotal", 0)
faiss_Index_d_stub == StubReturn("faiss_Index_d", 0)
faiss_Index_is_trained_stub == StubReturn("faiss_Index_is_trained", 1)

faiss_Index_free_stub ==
    /\ Running /\ build = "stub" /\ NoIO
    /\ out' = Unset
    /\ UNCHANGED <<heap, escaped, aux>>
    /\ ReturnedVoid("faiss_Index_free", 0)

Init ==
    /\ build \in {"impl", "stub"}
    /\ heap = [h \in Handles |-> NoObj]
    /\ op = "none"
    /\ arg = 0
    /\ narg = 0
    /\ ret = << >>
    /\ out = Unset
    /\ escaped = FALSE
    /\ aborted = FALSE
    /\ membuf = NoBuf
    /\ file = NoFile
    /\ aux = [h \in Handles |-> NoObj]

\* ---------------------------------------------------------- next-state
\* The constructors of float indexes, with dimensions from D, metric_type
\* arguments from MT and engine faults from F.
LeafConstructors(D, MT, F) ==
    \/ \E d \in D, f \in F : faiss_IndexFlatL2_new(d, f)
    \/ \E d \in D, f \in F : faiss_IndexFlatIP_new(d, f)
    \/ \E d \in D, mt \in MT, f \in F : faiss_IndexHNSWFlat_new(d, mt, f)
    \/ \E d \in D, mt \in MT, f \in F : faiss_IndexPQ_new(d, mt, f)
    \/ \E d \in D, mt \in MT, f \in F : faiss_IndexScalarQuantizer_new(d, mt, f)
    \/ \E d \in D, t \in BOOLEAN, f \in F : faiss_IndexLSH_new(d, t, f)
    \/ \E d \in D, mt \in MT, f \in F : faiss_IndexShards_new(d, mt, f)

WrapperConstructors(D, MT, F) ==
    \/ \E q \in Handles, d \in D, mt \in MT, f \in F :
          faiss_IndexIVFFlat_new(q, d, mt, f)
    \/ \E q \in Handles, d \in D, f \in F : faiss_IndexIVFPQ_new(q, d, f)
    \/ \E b \in Handles, f \in F : faiss_IndexIDMap_new(b, f)
    \/ \E q \in Handles, d \in D, mt \in MT, f \in F :
          faiss_IndexIVFScalarQuantizer_new(q, d, mt, f)
    \/ \E b \in Handles, r \in Handles, f \in F : faiss_IndexRefine_new(b, r, f)

\* Constructors that instantiate the class of another constructor.
FallbackConstructors(D, MT, F) ==
    \/ \E d \in D, mt \in MT, f \in F : faiss_IndexPQFastScan_new(d, mt, f)
    \/ \E q \in Handles, d \in D, mt \in MT, f \in F :
          faiss_IndexIVFPQFastScan_new(q, d, mt, f)
    \/ \E q \in Handles, d \in D, mt \in MT, f \in F :
          faiss_IndexIVFFlatOnDisk_new(q, d, mt, f)
    \/ \E q \in Handles, d \in D, mt \in MT, f \in F :
          faiss_IndexIVFPQOnDisk_new(q, d, mt, f)

BinaryConstructors(D, F) ==
    \/ \E d \in D, f \in F : faiss_IndexBinaryFlat_new(d, f)
    \/ \E q \in Handles, d \in D, f \in F : faiss_IndexBinaryIVF_new(q, d, f)
    \/ \E d \in D, f \in F : faiss_IndexBinaryHash_new(d, f)

\* A call without a fault runs to its end (m = n, no partial output).
CommonOps(F) ==
    \/ \E h \in Handles, n \in 1..MaxTotal, m \in 0..MaxTotal, f \in F :
          m <= n /\ (f \/ m = n) /\ faiss_Index_add(h, n, m, f)
    \/ \E h \in Handles, f \in F, p \in BOOLEAN :
          (f \/ ~p) /\ faiss_Index_search(h, f, p)
    \/ \E h \in Handles, f \in F : faiss_Index_train(h, f)
    \/ \E h \in Handles, f \in F : faiss_Index_reset(h, f)

Accessors ==
    \/ \E h \in Handles : faiss_Index_ntotal(h)
    \/ \E h \in Handles : faiss_Index_is_trained(h)
    \/ \E h \in Handles : faiss_Index_d(h)

BinaryOps(F) ==
    \/ \E h \in Handles, n \in 1..MaxTotal, m \in 0..MaxTotal, f \in F :
          m <= n /\ (f \/ m = n) /\ faiss_IndexBinary_add(h, n, m, f)
    \/ \E h \in Handles, f \in F, p \in BOOLEAN :
          (f \/ ~p) /\ faiss_IndexBinary_search(h, f, p)
    \/ \E h \in Handles, f \in F : faiss_IndexBinary_train(h, f)
    \/ \E h \in Handles, f \in F : faiss_IndexBinary_reset(h, f)
    \/ \E h \in Handles : faiss_IndexBinary_ntotal(h)
    \/ \E h \in Handles : faiss_IndexBinary_is_trained(h)
    \/ \E h \in Handles, f \in F : faiss_IndexBinary_free(h, f)

HNSWOps ==
    \/ \E h \in Handles, v \in Params : faiss_IndexHNSW_set_efConstruction(h, v)
    \/ \E h \in Handles, v \in Params : faiss_IndexHNSW_set_efSearch(h, v)
    \/ \E h \in Handles : faiss_IndexHNSW_get_efConstruction(h)
    \/ \E h \in Handles : faiss_IndexHNSW_get_efSearch(h)

CapabilityOps(F) ==
    \/ \E h \in Handles, v \in Params : faiss_IndexIVF_set_nprobe(h, v)
    \/ \E h \in Handles : faiss_IndexIVF_get_nprobe(h)
    \/ \E h \in Handles, v \in Params : faiss_IndexRefine_set_k_factor(h, v)
    \/ \E h \in Handles, f \in F, p \in BOOLEAN :
          (f \/ ~p) /\ faiss_Index_assign(h, f, p)
    \/ \E h \in Handles, s \in Handles, f \in F : faiss_IndexShards_add_shard(h, s, f)
    \/ \E h \in Handles, v \in Params : faiss_IndexBinaryIVF_set_nprobe(h, v)

\* Id lists of length 1..MaxId over the external ids.
IdLists == UNION {[1..k -> Ids] : k \in 1..MaxId}

IDMapOps(L, F) ==
    \/ \E h \in Handles, ids \in L, m \in 0..MaxId, f \in F :
          m <= Len(ids) /\ (f \/ m = Len(ids))
          /\ faiss_IndexIDMap_add_with_ids(h, ids, m, f)
    \/ \E h \in Handles, ids \in L, f \in F :
          faiss_IndexIDMap_remove_ids(h, ids, f)

SerializationOps(F) ==
    \/ \E h \in Handles, f \in F, p \in BOOLEAN :
          (f \/ ~p) /\ faiss_write_index(h, f, p)
    \/ \E f \in F : faiss_read_index(f)
    \/ \E h \in Handles, f \in F : faiss_serialize_index(h, f)
    \/ \E cut \in 0..1, f \in F :
          faiss_deserialize_index(Len(membuf.data) - cut, f)

GpuOps ==
    \/ faiss_StandardGpuResources_new
    \/ faiss_StandardGpuResources_setTempMemory
    \/ faiss_StandardGpuResources_setDefaultNullStreamAllDevices
    \/ faiss_StandardGpuResources_free
    \/ faiss_GpuIndexFlat_new
    \/ faiss_GpuIndexIVFFlat_new
    \/ \E h \in Handles : faiss_index_cpu_to_gpu(h)
    \/ \E h \in Handles : faiss_index_gpu_to_cpu(h)
    \/ \E h \in Handles : faiss_index_cpu_to_all_gpus(h)
    \/ faiss_get_num_gpus

StubOps ==
    \/ faiss_IndexFlatL2_new_stub
    \/ faiss_IndexFlatIP_new_stub
    \/ faiss_Index_add_stub
    \/ faiss_Index_search_stub
    \/ faiss_Index_train_stub
    \/ faiss_Index_reset_stub
    \/ faiss_Index_ntotal_stub
    \/ faiss_Index_d_stub
    \/ faiss_Index_is_trained_stub
    \/ faiss_Index_free_stub

\* The life of index handles: construction, the common operations, free.
Next ==
    \/ LeafConstructors({MaxParam}, {1}, {FALSE})
    \/ WrapperConstructors({MaxParam}, {1}, {FALSE})
    \/ BinaryConstructors({MaxParam}, {FALSE})
    \/ CommonOps(BOOLEAN)
    \/ Accessors
    \/ BinaryOps(BOOLEAN)
    \/ \E h \in Handles, f \in BOOLEAN : faiss_Index_free(h, f)
    \/ StubOps

Spec == Init /\ [][Next]_vars

InitImpl == Init /\ build = "impl"

\* Capability dispatch: every variant, every gated entry point.
NextCap ==
    \/ LeafConstructors({MaxParam}, {1}, {FALSE})
    \/ WrapperConstructors({MaxParam}, {1}, {FALSE})
    \/ BinaryConstructors({MaxParam}, {FALSE})
    \/ \E h \in Handles : faiss_Index_add(h, MaxTotal, MaxTotal, FALSE)
    \/ \E h \in Handles : faiss_Index_train(h, FALSE)
    \/ \E h \in Handles : faiss_Index_search(h, FALSE, FALSE)
    \/ CapabilityOps(BOOLEAN)
    \/ HNSWOps
    \/ IDMapOps({<<MaxId>>}, {FALSE})

SpecCap == InitImpl /\ [][NextCap]_vars

\* The graph index beside a flat one.
NextHNSW ==
    \/ \E f \in BOOLEAN : faiss_IndexFlatL2_new(MaxParam, f)
    \/ \E f \in BOOLEAN : faiss_IndexHNSWFlat_new(MaxParam, 1, f)
    \/ CommonOps(BOOLEAN)
    \/ HNSWOps
    \/ \E h \in Handles : faiss_Index_free(h, FALSE)

SpecHNSW == InitImpl /\ [][NextHNSW]_vars

\* The id map over a flat base.
NextIDMap ==
    \/ \E f \in BOOLEAN : faiss_IndexFlatL2_new(MaxParam, f)
    \/ \E b \in Handles, f \in BOOLEAN : faiss_IndexIDMap_new(b, f)
    \/ IDMapOps(IdLists, BOOLEAN)
    \/ \E h \in Handles, f \in BOOLEAN : faiss_Index_reset(h, f)
    \/ \E h \in Handles : faiss_Index_ntotal(h)
    \/ \E h \in Handles : faiss_Index_free(h, FALSE)

SpecIDMap == InitImpl /\ [][NextIDMap]_vars

\* The device-transfer group beside host indexes, those of the FastScan and
\* OnDisk constructors among them.
NextGpu ==
    \/ \E f \in BOOLEAN : faiss_IndexFlatL2_new(MaxParam, f)
    \/ FallbackConstructors({MaxParam}, {1}, {FALSE})
    \/ CommonOps({FALSE})
    \/ \E h \in Handles : faiss_Index_free(h, FALSE)
    \/ GpuOps

SpecGpu == InitImpl /\ [][NextGpu]_vars

\* ---- persistence
\* An index as a caller has built it: constructed, trained when t, and filled
\* with n vectors when it accepts them (an id map takes them with ids 1..n).
Built(o, t, n) ==
    LET a == IF t THEN EngineTrain(o, FALSE) ELSE o
    IN  IF ~a.trained THEN a
        ELSE IF a.cls = "IndexIDMap"
             THEN EngineAddWithIds(a, [i \in 1..n |-> i], n, FALSE)
             ELSE EngineAdd(a, n, n, FALSE)

\* What the constructors without a child handle produce.
LeafObjects ==
    UNION {{New_IndexFlatL2(d), New_IndexFlatIP(d), New_IndexHNSWFlat(d, mt),
            New_IndexPQ(d, mt), New_IndexScalarQuantizer(d, mt),
            New_IndexLSH(d, mt = 1), New_IndexShards(d, mt),
            New_IndexPQFastScan(d, mt)} : d \in Params, mt \in 0..1}

\* What the constructors over the child q at handle c produce.
WrapperObjects(c, q) ==
    UNION {{New_IndexIVFFlat(c, q.d, mt), New_IndexIVFPQ(c, q.d),
            New_IndexIVFScalarQuantizer(c, q.d, mt), New_IndexIDMap(c, q),
            New_IndexRefine(c, c, q, q), New_IndexIVFPQFastScan(c, q.d, mt),
            New_IndexIVFFlatOnDisk(c, q.d, mt), New_IndexIVFPQOnDisk(c, q.d, mt)}
           : mt \in 0..1}

\* One index built before persistence starts: a leaf at the first address, or
\* a flat child there and its wrapper at the second.
InitIO ==
    /\ build = "impl"
    /\ \/ \E o \in LeafObjects, t \in BOOLEAN, n \in 0..MaxTotal :
             heap = [h \in Handles |-> IF h = 1 THEN Built(o, t, n) ELSE NoObj]
       \/ \E d \in Params :
             \E o \in WrapperObjects(1, New_IndexFlatL2(d)),
                t \in BOOLEAN, n \in 0..MaxTotal :
                heap = [h \in Handles |->
                           IF h = 1 THEN New_IndexFlatL2(d)
                           ELSE IF h = 2 THEN Built(o, t, n) ELSE NoObj]
    /\ op = "none"
    /\ arg = 0
    /\ narg = 0
    /\ ret = << >>
    /\ out = Unset
    /\ escaped = FALSE
    /\ aborted = FALSE
    /\ membuf = NoBuf
    /\ file = NoFile
    /\ aux = [h \in Handles |-> NoObj]

NextIO ==
    \/ SerializationOps(BOOLEAN)
    \/ \E h \in Handles : faiss_Index_free(h, FALSE)

SpecIO == InitIO /\ [][NextIO]_vars

\* ---- output parameters
\* Every entry point that writes through a pointer of the caller, in both
\* builds, over flat indexes.
NextOut ==
    \/ \E f \in BOOLEAN : faiss_IndexFlatL2_new(MaxParam, f)
    \/ \E q \in Handles, f \in BOOLEAN : faiss_IndexIVFFlat_new(q, MaxParam, 1, f)
    \/ faiss_IndexFlatL2_new_stub
    \/ faiss_IndexFlatIP_new_stub
    \/ \E h \in Handles, f \in BOOLEAN, p \in BOOLEAN :
          (f \/ ~p) /\ faiss_Index_search(h, f, p)
    \/ \E h \in Handles : faiss_IndexIVF_get_nprobe(h)
    \/ SerializationOps(BOOLEAN)
    \/ \E h \in Handles : faiss_Index_free(h, FALSE)

SpecOut == Init /\ [][NextOut]_vars

\* ---- the null handle
\* Entry points whose body starts with index->..., without a look at index.
DerefOps ==
    {"faiss_Index_add", "faiss_Index_add_with_ids", "faiss_Index_search",
     "faiss_Index_range_search", "faiss_Index_train", "faiss_Index_reconstruct",
     "faiss_Index_reconstruct_n", "faiss_Index_reset", "faiss_Index_ntotal",
     "faiss_Index_is_trained", "faiss_Index_d"}

\* index->...() or index->field on a null index: an access through address 0,
\* which no handler intercepts.  The process dies, or the call returns
\* whatever value s the build happens to produce.
NullDeref(name, crash, s) ==
    /\ Running /\ build = "impl" /\ NoIO
    /\ op' = name
    /\ arg' = 0
    /\ narg' = 0
    /\ aborted' = crash
    /\ ret' = IF crash THEN << >> ELSE <<s>>
    /\ out' = Unset
    /\ UNCHANGED <<build, heap, escaped, aux>>

\* dynamic_cast<Family*>(nullptr) is nullptr: if (!ivf) return -1;
NullCast(name) ==
    /\ Running /\ build = "impl" /\ NoIO
    /\ out' = Unset
    /\ UNCHANGED heap
    /\ Returned(name, 0, STATUS_FAIL)

\* Calls on live handles beside calls on the null handle.
NextNull ==
    \/ faiss_IndexFlatL2_new(MaxParam, FALSE)
    \/ \E q \in Handles : faiss_IndexIVFFlat_new(q, MaxParam, 1, FALSE)
    \/ CommonOps({FALSE})
    \/ Accessors
    \/ \E h \in Handles : faiss_IndexIVF_get_nprobe(h)
    \/ \E name \in DerefOps, crash \in BOOLEAN, s \in {STATUS_FAIL, STATUS_OK} :
          (crash => s = STATUS_FAIL) /\ NullDeref(name, crash, s)
    \/ \E name \in GatedOps : NullCast(name)

SpecNull == InitImpl /\ [][NextNull]_vars

\* ---- ownership under composition
TransformClasses == {"PCAMatrix", "OPQMatrix", "RandomRotationMatrix"}

IsTransform(t) == t \in Handles /\ aux[t].cls \in TransformClasses

FreeAux == {a \in Handles : aux[a] = NoObj}

NewAux == CHOOSE a \in FreeAux : \A b \in FreeAux : a <= b

\* try { *p = new faiss::Class(...); return 0; } CATCH_AND_HANDLE() for the
\* objects that are not indexes; field names the output parameter.
ConstructAux(name, field, obj, fault) ==
    /\ Running /\ build = "impl" /\ NoIO
    /\ LET threw == fault \/ FreeAux = {}
       IN  /\ aux' = IF threw THEN aux ELSE [aux EXCEPT ![NewAux] = obj]
           /\ out' = IF threw THEN Unset ELSE [Unset EXCEPT ![field] = <<NewAux>>]
           /\ Frame(name, 0, 0, CatchAndHandle(threw))
    /\ UNCHANGED heap

faiss_PCAMatrix_new(fault) ==
    ConstructAux("faiss_PCAMatrix_new", "p_transform",
                 [cls |-> "PCAMatrix", trained |-> FALSE], fault)

faiss_OPQMatrix_new(fault) ==
    ConstructAux("faiss_OPQMatrix_new", "p_transform",
                 [cls |-> "OPQMatrix", trained |-> FALSE], fault)

\* rr->init(42) runs before the handle is stored.
faiss_RandomRotationMatrix_new(fault) ==
    ConstructAux("faiss_RandomRotationMatrix_new", "p_transform",
                 [cls |-> "RandomRotationMatrix", trained |-> TRUE], fault)

\* delete transform, outside any try block.
faiss_VectorTransform_free(t, fault) ==
    /\ Running /\ build = "impl" /\ NoIO /\ IsTransform(t)
    /\ aux' = IF fault THEN aux ELSE [aux EXCEPT ![t] = NoObj]
    /\ escaped' = fault
    /\ out' = Unset
    /\ op' = "faiss_VectorTransform_free" /\ arg' = t /\ narg' = 0 /\ ret' = << >>
    /\ UNCHANGED <<build, heap, aborted>>

New_IndexPreTransform(transform, base_index, base, ltrans) ==
    [chain |-> <<transform>>] @@
    NewObj("faiss_IndexPreTransform_new", "IndexPreTransform", base.d, base.metric,
           FALSE, base.trained /\ ltrans.trained, <<base_index>>)

faiss_IndexPreTransform_new(transform, base_index, fault) ==
    /\ IsTransform(transform) /\ IsFloat(base_index)
    /\ Construct(New_IndexPreTransform(transform, base_index, heap[base_index],
                                       aux[transform]), fault)

\* The caller holds h and has handed it to no owning wrapper.
CallerOwnsIndex(h) ==
    IsFloat(h) /\ \A w \in Handles : h \notin OwnedIndexes(heap[w])

CallerOwnsTransform(t) ==
    IsTransform(t) /\ \A w \in Handles : t \notin OwnedTransforms(heap[w])

\* Construction, composition and release by a caller that releases what it
\* owns and hands a shard or a transform to one owner only.
NextOwn ==
    \/ faiss_IndexFlatL2_new(MaxParam, FALSE)
    \/ \E f \in BOOLEAN : faiss_PCAMatrix_new(f)
    \/ faiss_OPQMatrix_new(FALSE)
    \/ faiss_RandomRotationMatrix_new(FALSE)
    \/ \E b \in Handles : faiss_IndexIDMap_new(b, FALSE)
    \/ \E b, r \in Handles : faiss_IndexRefine_new(b, r, FALSE)
    \/ \E t, b \in Handles, f \in BOOLEAN :
          CallerOwnsTransform(t) /\ faiss_IndexPreTransform_new(t, b, f)
    \/ faiss_IndexShards_new(MaxParam, 1, FALSE)
    \/ \E h, c \in Handles, f \in BOOLEAN :
          /\ CallerOwnsIndex(h) /\ CallerOwnsIndex(c)
          /\ faiss_IndexShards_add_shard(h, c, f)
    \/ \E h \in Handles : CallerOwnsIndex(h) /\ faiss_Index_free(h, FALSE)
    \/ \E t \in Handles : CallerOwnsTransform(t) /\ faiss_VectorTransform_free(t, FALSE)

SpecOwn == InitImpl /\ [][NextOwn]_vars

\* ---- the metric_type argument
\* The values a caller passes as metric_type: 0, 1 and values beyond.
MetricTypes == 0..MaxParam

\* The constructors that take a metric_type argument.
MetricConstructors ==
    {"faiss_IndexIVFFlat_new", "faiss_IndexHNSWFlat_new", "faiss_IndexPQ_new",
     "faiss_IndexScalarQuantizer_new", "faiss_IndexIVFScalarQuantizer_new",
     "faiss_IndexShards_new", "faiss_IndexPQFastScan_new",
     "faiss_IndexIVFPQFastScan_new", "faiss_IndexIVFFlatOnDisk_new",
     "faiss_IndexIVFPQOnDisk_new"}

\* One index at a time beside its quantizer: built, serialized, released and
\* read back.
NextMetric ==
    \/ faiss_IndexFlatL2_new(MaxParam, FALSE)
    \/ \E mt \in MetricTypes :
          /\ \A h \in Handles : heap[h].cls \in {"none", "IndexFlatL2"}
          /\ \/ faiss_IndexHNSWFlat_new(MaxParam, mt, FALSE)
             \/ faiss_IndexPQ_new(MaxParam, mt, FALSE)
             \/ faiss_IndexScalarQuantizer_new(MaxParam, mt, FALSE)
             \/ faiss_IndexShards_new(MaxParam, mt, FALSE)
             \/ faiss_IndexPQFastScan_new(MaxParam, mt, FALSE)
             \/ \E q \in Handles :
                   \/ faiss_IndexIVFFlat_new(q, MaxParam, mt, FALSE)
                   \/ faiss_IndexIVFScalarQuantizer_new(q, MaxParam, mt, FALSE)
                   \/ faiss_IndexIVFPQFastScan_new(q, MaxParam, mt, FALSE)
                   \/ faiss_IndexIVFFlatOnDisk_new(q, MaxParam, mt, FALSE)
                   \/ faiss_IndexIVFPQOnDisk_new(q, MaxParam, mt, FALSE)
    \/ \E h \in Handles : faiss_serialize_index(h, FALSE)
    \/ faiss_deserialize_index(Len(membuf.data), FALSE)
    \/ \E h \in Handles : faiss_Index_free(h, FALSE)

SpecMetric == InitImpl /\ [][NextMetric]_vars

\* ---- range search results
\* new faiss::RangeSearchResult(n); held: the caller has a pointer to it.
New_RangeSearchResult(n, held) ==
    [cls |-> "RangeSearchResult", nq |-> n, held |-> held]

\* The result is allocated first; when range_search throws after that, the
\* handler returns -1 and the only pointer to the result, a local, is gone.
faiss_Index_range_search(h, n, fault) ==
    /\ Running /\ build = "impl" /\ NoIO /\ IsFloat(h)
    /\ LET full == FreeAux = {}
           threw == full \/ EngineSearchThrows(heap[h], fault)
       IN  /\ aux' = IF full THEN aux
                     ELSE [aux EXCEPT ![NewAux] = New_RangeSearchResult(n, ~threw)]
           /\ out' = IF threw THEN Unset ELSE [Unset EXCEPT !.p_result = <<NewAux>>]
           /\ Frame("faiss_Index_range_search", h, n, CatchAndHandle(threw))
    /\ UNCHANGED heap

\* delete static_cast<faiss::RangeSearchResult*>(result), on a pointer the
\* caller was given.
faiss_RangeSearchResult_free(r) ==
    /\ Running /\ build = "impl" /\ NoIO
    /\ r \in Handles /\ aux[r].cls = "RangeSearchResult" /\ aux[r].held
    /\ aux' = [aux EXCEPT ![r] = NoObj]
    /\ out' = Unset
    /\ op' = "faiss_RangeSearchResult_free" /\ arg' = r /\ narg' = 0 /\ ret' = << >>
    /\ UNCHANGED <<build, heap, escaped, aborted>>

NextRange ==
    \/ \E d \in Params : faiss_IndexFlatL2_new(d, FALSE)
    \/ \E q \in Handles : faiss_IndexIVFFlat_new(q, MaxParam, 1, FALSE)
    \/ \E h \in Handles : faiss_Index_add(h, 1, 1, FALSE)
    \/ \E h \in Handles : faiss_Index_train(h, FALSE)
    \/ \E h \in Handles, n \in 1..MaxTotal, f \in BOOLEAN :
          faiss_Index_range_search(h, n, f)
    \/ \E r \in Handles : faiss_RangeSearchResult_free(r)
    \/ \E h \in Handles : faiss_Index_free(h, FALSE)

SpecRange == InitImpl /\ [][NextRange]_vars

\* ---- the clustering facade
\* faiss::Clustering(d, k): no centroids yet (specification, sections 3 and
\* 4.7: the k * d centroids are the product of training); centroids is the
\* number of floats the centroid vector holds, and 0 stands for the engine's
\* default of niter and seed.
New_Clustering(d, k) ==
    [cls |-> "Clustering", d |-> d, k |-> k, centroids |-> 0,
     niter |-> 0, seed |-> 0, verbose |-> FALSE]

IsKmeans(h) == h \in Handles /\ aux[h].cls = "Clustering"

\* Clustering::train: refuses fewer than k points; a fault leaves the
\* centroids as they were.
EngineClusteringTrain(c, n, fault) ==
    IF fault \/ n < c.k THEN c ELSE [c EXCEPT !.centroids = c.k * c.d]

faiss_Kmeans_new(d, k, fault) ==
    ConstructAux("faiss_Kmeans_new", "p_kmeans", New_Clustering(d, k), fault)

\* A call on a clustering that alters at most the object.
KmeansReturn(name, h, n, obj, s) ==
    /\ aux' = [aux EXCEPT ![h] = obj]
    /\ out' = Unset
    /\ UNCHANGED heap
    /\ Frame(name, h, n, s)

faiss_Kmeans_set_niter(h, niter) ==
    /\ Running /\ build = "impl" /\ NoIO /\ IsKmeans(h)
    /\ KmeansReturn("faiss_Kmeans_set_niter", h, niter,
                    [aux[h] EXCEPT !.niter = niter], STATUS_OK)

faiss_Kmeans_set_verbose(h, verbose) ==
    /\ Running /\ build = "impl" /\ NoIO /\ IsKmeans(h)
    /\ KmeansReturn("faiss_Kmeans_set_verbose", h, verbose,
                    [aux[h] EXCEPT !.verbose = (verbose # 0)], STATUS_OK)

faiss_Kmeans_set_seed(h, seed) ==
    /\ Running /\ build = "impl" /\ NoIO /\ IsKmeans(h)
    /\ KmeansReturn("faiss_Kmeans_set_seed", h, seed,
                    [aux[h] EXCEPT !.seed = seed], STATUS_OK)

faiss_Kmeans_train(h, n, fault) ==
    /\ Running /\ build = "impl" /\ NoIO /\ IsKmeans(h)
    /\ KmeansReturn("faiss_Kmeans_train", h, n,
                    EngineClusteringTrain(aux[h], n, fault),
                    CatchAndHandle(fault \/ n < aux[h].k))

\* A read of want floats from a buffer of have floats: defined within the
\* buffer; beyond it the process dies or the call goes on with whatever the
\* memory held.
ReadBeyond(want, have) == want > have

\* index.add(k, centroids.data()) reads k * d floats, then the search of the
\* n points writes the labels.
faiss_Kmeans_assign(h, n, fault, crash) ==
    /\ Running /\ build = "impl" /\ NoIO /\ IsKmeans(h)
    /\ crash => ReadBeyond(aux[h].k * aux[h].d, aux[h].centroids)
    /\ op' = "faiss_Kmeans_assign" /\ arg' = h /\ narg' = n
    /\ aborted' = crash
    /\ ret' = IF crash THEN << >> ELSE <<CatchAndHandle(fault)>>
    /\ out' = IF crash \/ fault THEN Unset ELSE [Unset EXCEPT !.buf = <<"labels">>]
    /\ UNCHANGED <<build, heap, aux, escaped>>

\* memcpy(centroids, kmeans->centroids.data(), k * d * sizeof(float))
faiss_Kmeans_get_centroids(h, crash) ==
    /\ Running /\ build = "impl" /\ NoIO /\ IsKmeans(h)
    /\ crash => ReadBeyond(aux[h].k * aux[h].d, aux[h].centroids)
    /\ op' = "faiss_Kmeans_get_centroids" /\ arg' = h /\ narg' = 0
    /\ aborted' = crash
    /\ ret' = IF crash THEN << >> ELSE <<STATUS_OK>>
    /\ out' = IF crash THEN Unset ELSE [Unset EXCEPT !.buf = <<"centroids">>]
    /\ UNCHANGED <<build, heap, aux, escaped>>

\* delete kmeans, outside any try block.
faiss_Kmeans_free(h, fault) ==
    /\ Running /\ build = "impl" /\ NoIO /\ IsKmeans(h)
    /\ aux' = IF fault THEN aux ELSE [aux EXCEPT ![h] = NoObj]
    /\ escaped' = fault
    /\ out' = Unset
    /\ op' = "faiss_Kmeans_free" /\ arg' = h /\ narg' = 0 /\ ret' = << >>
    /\ UNCHANGED <<build, heap, aborted>>

NextKmeans ==
    \/ \E k \in Params, f \in BOOLEAN : faiss_Kmeans_new(MaxParam, k, f)
    \/ \E h \in Handles : faiss_Kmeans_set_niter(h, MaxParam)
    \/ \E h \in Handles : faiss_Kmeans_set_verbose(h, 1)
    \/ \E h \in Handles : faiss_Kmeans_set_seed(h, MaxParam)
    \/ \E h \in Handles, n \in 1..MaxTotal, f \in BOOLEAN :
          faiss_Kmeans_train(h, n, f)
    \/ \E h \in Handles, f, c \in BOOLEAN : faiss_Kmeans_assign(h, 1, f, c)
    \/ \E h \in Handles, c \in BOOLEAN : faiss_Kmeans_get_centroids(h, c)
    \/ \E h \in Handles : faiss_Kmeans_free(h, FALSE)

SpecKmeans == InitImpl /\ [][NextKmeans]_vars

\* ------------------------------------------------------------ properties
\* C1: a capability-gated entry point called on a handle whose class is not in
\* the family it casts to returns a negative status and touches nothing: every
\* field of every engine object, the caller's output parameter and the
\* serialized artifacts are what they were before the call, so a later search
\* on the handle answers as before.
C1_MismatchTouchesNothing ==
    [][(op' \in GatedOps /\ ~DynamicCast(arg', TargetFamily(op')))
          => /\ ret' = <<STATUS_FAIL>>
             /\ heap' = heap
             /\ out' = Unset
             /\ membuf' = membuf
             /\ file' = file
             /\ ~escaped']_vars

\* A gated call has just been refused on a live handle that holds vectors.
C1_Witness ==
    /\ op \in GatedOps
    /\ Live(arg)
    /\ ~DynamicCast(arg, TargetFamily(op))
    /\ ret = <<STATUS_FAIL>>
    /\ heap[arg].ntotal > 0

\* C2: no fault raised by the engine during a boundary operation gets past
\* the facade to the caller.
C2_NoFaultEscapes == ~escaped

C5_EfSetGet ==
    [][/\ (op' = "faiss_IndexHNSW_set_efSearch" /\ ret' = <<STATUS_OK>>)
             => /\ heap'[arg'].efSearch = narg'
                /\ heap'[arg'].efConstruction = heap[arg'].efConstruction
       /\ (op' = "faiss_IndexHNSW_set_efConstruction" /\ ret' = <<STATUS_OK>>)
             => /\ heap'[arg'].efConstruction = narg'
                /\ heap'[arg'].efSearch = heap[arg'].efSearch
       /\ \A h \in Handles :
             (Live(h) /\ heap'[h] # NoObj)
                => /\ heap'[h].efSearch # heap[h].efSearch
                      => (op' = "faiss_IndexHNSW_set_efSearch" /\ arg' = h
                          /\ ret' = <<STATUS_OK>>)
                   /\ heap'[h].efConstruction # heap[h].efConstruction
                      => (op' = "faiss_IndexHNSW_set_efConstruction" /\ arg' = h
                          /\ ret' = <<STATUS_OK>>)
       /\ (op' = "faiss_IndexHNSW_get_efSearch" /\ ret' = <<STATUS_OK>>)
             => out'.val = <<heap[arg'].efSearch>>
       /\ (op' = "faiss_IndexHNSW_get_efConstruction" /\ ret' = <<STATUS_OK>>)
             => out'.val = <<heap[arg'].efConstruction>>]_vars

\* efSearch read back on a filled graph index whose two parameters differ.
C5_Witness ==
    /\ op = "faiss_IndexHNSW_get_efSearch"
    /\ ret = <<STATUS_OK>>
    /\ out.val = <<MaxParam>>
    /\ heap[arg].efConstruction = 1
    /\ heap[arg].ntotal > 0

\* C6: on an id map whose stored ids P are pairwise distinct (the caller's
\* obligation for add_with_ids), remove_ids with an id list S, repeats and
\* absent ids allowed, returns 0 with n_removed = |S \cap P|, lowers ntotal by
\* exactly n_removed, and keeps every id outside S.
C6_RemoveIdsCount ==
    [][\A h \in Handles, ids \in IdLists :
          (/\ faiss_IndexIDMap_remove_ids(h, ids, FALSE)
           /\ DynamicCast(h, IDMapFamily)
           /\ \A i, j \in 1..Len(heap[h].ids) :
                 heap[h].ids[i] = heap[h].ids[j] => i = j)
             => LET P == {heap[h].ids[i] : i \in 1..Len(heap[h].ids)}
                    S == {ids[i] : i \in 1..Len(ids)}
                    n == Cardinality(S \cap P)
                IN  /\ ret' = <<STATUS_OK>>
                    /\ out'.val = <<n>>
                    /\ heap'[h].ntotal = heap[h].ntotal - n
                    /\ {heap'[h].ids[i] : i \in 1..Len(heap'[h].ids)} = P \ S]_vars

\* One of two stored ids has just been removed.
C6_Witness ==
    /\ op = "faiss_IndexIDMap_remove_ids"
    /\ ret = <<STATUS_OK>>
    /\ out.val = <<1>>
    /\ heap[arg].ntotal = 1
    /\ Len(heap[arg].ids) = 1

\* C7 (as stated): every call that returns a negative status leaves ntotal of
\* its handle as it was.
C7_FailedCallKeepsNtotal ==
    [][(build = "impl" /\ op' \in {"faiss_Index_add", "faiss_Index_search",
                                   "faiss_Index_train", "faiss_Index_reset"}
        /\ ret' = <<STATUS_FAIL>>)
          => heap'[arg'].ntotal = heap[arg'].ntotal]_vars

\* C7 (amended): a successful add(n) raises ntotal by exactly n; a successful
\* reset sets it to 0 and keeps the trained flag; search, train, a failed
\* reset and every call on another handle leave it unchanged; a failed add(n)
\* leaves it anywhere from its old value to its old value plus n (the vectors
\* the engine had appended when the fault came stay, there is no rollback);
\* and faiss_Index_ntotal returns the field.
C7_NtotalAccounting ==
    [][/\ (op' = "faiss_Index_add" /\ build = "impl")
             => IF ret' = <<STATUS_OK>>
                THEN heap'[arg'].ntotal = heap[arg'].ntotal + narg'
                ELSE /\ heap[arg'].ntotal <= heap'[arg'].ntotal
                     /\ heap'[arg'].ntotal <= heap[arg'].ntotal + narg'
       /\ (op' = "faiss_Index_reset" /\ build = "impl" /\ ret' = <<STATUS_OK>>)
             => /\ heap'[arg'].ntotal = 0
                /\ heap'[arg'].trained = heap[arg'].trained
       /\ \A h \in Handles :
             (Live(h) /\ heap'[h] # NoObj /\ heap'[h].ntotal # heap[h].ntotal)
                => /\ arg' = h
                   /\ \/ op' \in {"faiss_Index_add", "faiss_IndexBinary_add"}
                      \/ /\ op' \in {"faiss_Index_reset", "faiss_IndexBinary_reset"}
                         /\ ret' = <<STATUS_OK>>
       /\ (op' = "faiss_Index_ntotal" /\ build = "impl")
             => ret' = <<heap[arg'].ntotal>>]_vars

\* faiss_Index_ntotal has just reported the vectors a failed add left behind
\* on top of a successful one.
C7_Witness ==
    /\ op = "faiss_Index_ntotal"
    /\ build = "impl"
    /\ ret = <<MaxTotal>>
    /\ heap[arg].cls = "IndexPQ"

\* C8: right after a successful constructor the trained flag is set on
\* IndexFlatL2, IndexFlatIP and IndexBinaryFlat and clear on the inverted-file
\* classes, IndexPQ, IndexScalarQuantizer and an IndexLSH built with
\* train_thresholds; the flag of a live handle never goes from set to clear,
\* and goes from clear to set only in a successful train on that handle; the
\* is_trained entry points report the flag.
C8_TrainedFlag ==
    [][/\ (out'.p_index # << >> /\ ret' = <<STATUS_OK>>)
             => LET o == heap'[out'.p_index[1]]
                IN  /\ o.cls \in {"IndexFlatL2", "IndexFlatIP", "IndexBinaryFlat"}
                       => o.trained
                    /\ o.cls \in IVFFamily \cup {"IndexPQ", "IndexScalarQuantizer"}
                       => ~o.trained
       /\ \A d \in Params :
             (faiss_IndexLSH_new(d, TRUE, FALSE) /\ ret' = <<STATUS_OK>>)
                => ~heap'[out'.p_index[1]].trained
       /\ \A h \in Handles :
             (Live(h) /\ heap'[h] # NoObj)
                => /\ heap[h].trained => heap'[h].trained
                   /\ (~heap[h].trained /\ heap'[h].trained)
                      => /\ op' \in {"faiss_Index_train", "faiss_IndexBinary_train"}
                         /\ arg' = h
                         /\ ret' = <<STATUS_OK>>
       /\ (op' = "faiss_Index_is_trained" /\ build = "impl")
             => ret' = <<IF heap[arg'].trained THEN 1 ELSE 0>>
       /\ op' = "faiss_IndexBinary_is_trained"
             => out'.val = <<IF heap[arg'].trained THEN 1 ELSE 0>>]_vars

\* is_trained has just reported 0 on a product quantizer nobody has trained.
C8_Witness ==
    /\ op = "faiss_Index_is_trained"
    /\ build = "impl"
    /\ ret = <<0>>
    /\ heap[arg].cls = "IndexPQ"

\* C9: an add or a search on a handle whose index is not trained returns a
\* negative status, lets no fault out, and leaves ntotal at 0.
C9_UntrainedRefuses ==
    [][(build = "impl" /\ op' \in {"faiss_Index_add", "faiss_Index_search"}
        /\ ~heap[arg'].trained)
          => /\ ret' = <<STATUS_FAIL>>
             /\ ~escaped'
             /\ heap[arg'].ntotal = 0
             /\ heap'[arg'].ntotal = 0
             /\ ~heap'[arg'].trained]_vars

\* An add has just been refused by an inverted file nobody has trained.
C9_Witness ==
    /\ op = "faiss_Index_add"
    /\ build = "impl"
    /\ ret = <<STATUS_FAIL>>
    /\ heap[arg].cls = "IndexIVFFlat"
    /\ ~heap[arg].trained

\* C10: built without FAISS_GPU, each of the eight device-transfer entry
\* points returns -1 and writes no output parameter in every state, and
\* faiss_get_num_gpus returns 0 and reports 0 devices.
C10_GpuStubsFail ==
    /\ op \in {"faiss_StandardGpuResources_new",
               "faiss_StandardGpuResources_setTempMemory",
               "faiss_StandardGpuResources_setDefaultNullStreamAllDevices",
               "faiss_GpuIndexFlat_new", "faiss_GpuIndexIVFFlat_new",
               "faiss_index_cpu_to_gpu", "faiss_index_gpu_to_cpu",
               "faiss_index_cpu_to_all_gpus"}
          => (ret = <<STATUS_FAIL>> /\ out = Unset)
    /\ op = "faiss_get_num_gpus" => (ret = <<STATUS_OK>> /\ out.val = <<0>>)

\* A transfer to the device has just been refused for a filled host index.
C10_Witness ==
    /\ op = "faiss_index_cpu_to_gpu"
    /\ ret = <<STATUS_FAIL>>
    /\ \E h \in Handles : Live(h) /\ heap[h].ntotal = MaxTotal

\* C11: a boundary operation called with the null handle returns a negative
\* status and the process lives on.
C11_NullHandleRefused ==
    (arg = 0 /\ op \in DerefOps \cup GatedOps)
       => (ret = <<STATUS_FAIL>> /\ ~aborted)

\* Every object is the caller's or one live wrapper's, never both and never
\* of two wrappers, and what a wrapper owns is alive.
OwnershipSound ==
    /\ \A w, t \in Handles : t \in OwnedTransforms(heap[w]) => IsTransform(t)
    /\ \A w, g \in Handles : g \in OwnedIndexes(heap[w]) => IsFloat(g)
    /\ \A t \in Handles :
          Cardinality({w \in Handles : t \in OwnedTransforms(heap[w])}) <= 1
    /\ \A g \in Handles :
          Cardinality({w \in Handles : g \in OwnedIndexes(heap[w])}) <= 1
    /\ ((\A h \in Handles : ~CallerOwnsIndex(h) /\ ~CallerOwnsTransform(h))
           => \A h \in Handles : heap[h] = NoObj /\ aux[h] = NoObj)

C14_MetricFollowsArgument ==
    [][/\ (op' \in MetricConstructors /\ ret' = <<STATUS_OK>>)
             => heap'[out'.p_index[1]].metric =
                   (IF narg' = 0 THEN "IP" ELSE "L2")
       /\ (op' \in {"faiss_deserialize_index", "faiss_read_index"}
           /\ ret' = <<STATUS_OK>>)
             => LET I == IF op' = "faiss_read_index" THEN file.of ELSE membuf.of
                IN  out'.metric = <<IF I.metric = "IP" THEN 0 ELSE 1>>
      ]_vars

\* C14 (amended): the same of every such constructor but faiss_IndexShards_new,
\* which builds an L2 index whatever metric_type is.
C14_MetricFollowsArgumentButShards ==
    [][/\ (op' \in MetricConstructors /\ ret' = <<STATUS_OK>>)
             => heap'[out'.p_index[1]].metric =
                   (IF narg' = 0 /\ op' # "faiss_IndexShards_new" THEN "IP" ELSE "L2")
       /\ (op' \in {"faiss_deserialize_index", "faiss_read_index"}
           /\ ret' = <<STATUS_OK>>)
             => LET I == IF op' = "faiss_read_index" THEN file.of ELSE membuf.of
                IN  out'.metric = <<IF I.metric = "IP" THEN 0 ELSE 1>>
      ]_vars

\* An inner-product index built by a constructor with a metric_type argument
\* has come back from its buffer, reported with metric code 0.
C14_Witness ==
    /\ op = "faiss_deserialize_index" /\ ret = <<STATUS_OK>>
    /\ membuf.of.ctor \in MetricConstructors
    /\ membuf.of.metric = "IP"
    /\ out.metric = <<0>>

\* C15: every range search result that exists is one the caller was given
\* through p_result by a call that returned 0 and has not released yet; a
\* call that returns -1 leaves no result behind.
C15_ResultDeliveredOrReleased ==
    /\ \A a \in Handles : aux[a].cls = "RangeSearchResult" => aux[a].held
    /\ (op = "faiss_Index_range_search" /\ ret = <<STATUS_OK>>)
          => aux[out.p_result[1]].cls = "RangeSearchResult"

\* C16: faiss_Kmeans_get_centroids and faiss_Kmeans_assign read no more
\* floats than the centroid vector holds: whenever one of them has run, the
\* clustering it ran on holds its k * d centroids and the process is alive.
C16_CentroidReadsInBounds ==
    (op \in {"faiss_Kmeans_get_centroids", "faiss_Kmeans_assign"})
       => /\ ~aborted
          /\ aux[arg].k * aux[arg].d <= aux[arg].centroids

====
